---------------------------- MODULE Spec2Model ----------------------------
(***************************************************************************)
(* A model of helper.py: the tracker option selector, the frame renderer,  *)
(* the YouTube stream-URL extraction and the four source adapters          *)
(* (play_youtube_video, play_rtsp_stream, play_webcam, play_stored_video). *)
(*                                                                         *)
(* One run of the model is one execution of one adapter function, from the *)
(* moment the script calls it to the moment it returns or an exception     *)
(* leaves it.  The external libraries (cv2, yt_dlp, the YOLO model, the    *)
(* streamlit widgets) are the environment: every result they can hand back *)
(* is a nondeterministic choice from a small set.                          *)
(*                                                                         *)
(* Python strings are sequences of one-character strings, so that the      *)
(* `in` operator is a real substring search.  None is the string "None"    *)
(* where a value may be absent; an absent or empty str is <<>>.            *)
(***************************************************************************)
EXTENDS Integers, Sequences, FiniteSets, TLC

\* ------------------------------------------------------------------ bounds

\* The longest stream a Frame Source delivers.
MaxFrames == 2

\* The most filler characters put before and after a URL text typed by the user.
MaxPad == 1

\* The number of load_model calls: successive calls of one script, or the calls
\* of as many sessions running in one process.
MaxCalls == 2

\* The most torch.load calls the model constructions make in one run.
MaxTorchLoads == 1

\* The most frames a live source is followed for.
MaxLiveReads == 2

\* ----------------------------------------------------------------- strings

WatchNeedle == <<"y","o","u","t","u","b","e",".","c","o","m","/","w","a","t","c","h">>

ShortNeedle == <<"y","o","u","t","u",".","b","e","/">>

ExtractionPrefix == <<"Y","o","u","T","u","b","e"," ","e","x","t","r","a","c","t","i","o","n"," ","f","a","i","l","e","d",":"," ">>

ExtractionMarker == <<"Y","o","u","T","u","b","e"," ","e","x","t","r","a","c","t","i","o","n"," ","f","a","i","l","e","d">>

BrokenPipeMarker == <<"B","r","o","k","e","n"," ","p","i","p","e">>

ErrnoMarker == <<"E","r","r","n","o"," ","3","2">>

NoInfoText == <<"F","a","i","l","e","d"," ","t","o"," ","e","x","t","r","a","c","t"," ","v","i","d","e","o"," ","i","n","f","o","r","m","a","t","i","o","n">>

NoStreamUrlText == <<"N","o"," ","s","t","r","e","a","m"," ","U","R","L"," ","f","o","u","n","d"," ","i","n"," ","v","i","d","e","o"," ","i","n","f","o","."," ","T","h","e"," ","v","i","d","e","o"," ","m","i","g","h","t"," ","b","e"," ","p","r","i","v","a","t","e",","," ","a","g","e","-","r","e","s","t","r","i","c","t","e","d",","," ","o","r"," ","u","n","a","v","a","i","l","a","b","l","e",".">>

\* Python's `needle in s` on str: needle occurs in s as a contiguous run.
Contains(needle, s) ==
    \E i \in 0..(Len(s) - Len(needle)) :
        SubSeq(s, i + 1, i + Len(needle)) = needle

\* i filler characters.
Pad(i) == [k \in 1..i |-> "x"]

\* ------------------------------------------------- what the user may type

\* URL texts for the YouTube text input: the empty text, the two URLs the
\* specification names, a long watch URL, the two needles alone, and texts
\* that miss a needle by one character or hold only a part of one.
UrlCores ==
    { <<>>,
      <<"h","t","t","p","s",":","/","/","y","o","u","t","u",".","b","e","/","a","b","c","1","2","3">>,
      <<"h","t","t","p","s",":","/","/","e","x","a","m","p","l","e",".","c","o","m","/","v","i","d","e","o">>,
      <<"h","t","t","p","s",":","/","/","w","w","w",".","y","o","u","t","u","b","e",".","c","o","m","/","w","a","t","c","h","?","v","=","a","b","c">>,
      WatchNeedle,
      ShortNeedle,
      <<"y","o","u","t","u","b","e",".","c","o","m","/","w","a","t","c">>,
      <<"y","o","u","t","u","b","e",".","c","o","m","/">>,
      <<"y","o","u","t","u",".","b","e">>,
      <<"w","a","t","c","h">> }

YoutubeInputs ==
    { Pad(i) \o c \o Pad(j) : i \in 0..MaxPad, j \in 0..MaxPad, c \in UrlCores }

\* URL texts for the RTSP text input: empty, or the example of the caption.
RtspInputs ==
    { <<>>,
      <<"r","t","s","p",":","/","/","a","d","m","i","n",":","1","2","3","4","5","@","1","9","2",".","1","6","8",".","1",".","2","1","0",":","5","5","4","/","S","t","r","e","a","m","i","n","g","/","C","h","a","n","n","e","l","s","/","1","0","1">> }

\* The states of the two radio widgets of display_tracker_options.
TrackerNames == {"bytetrack.yaml", "botsort.yaml"}

RadioStates == [display_tracker : {"Yes", "No"}, tracker_type : TrackerNames]

\* ------------------------------------------- what the libraries may answer

\* The texts of the exceptions cv2.VideoCapture, the model call or yt_dlp raise.
LibErrorTexts ==
    { <<"m","o","d","e","l"," ","i","n","f","e","r","e","n","c","e"," ","f","a","i","l","e","d">>,
      <<"[","E","r","r","n","o"," ","3","2","]"," ","B","r","o","k","e","n"," ","p","i","p","e">>,
      <<"B","r","o","k","e","n"," ","p","i","p","e">>,
      <<"U","n","a","b","l","e"," ","t","o"," ","d","o","w","n","l","o","a","d"," ","w","e","b","p","a","g","e">> }

DirectUrl == <<"h","t","t","p","s",":","/","/","c","d","n","/","v",".","m","p","4">>

ManifestUrl == <<"h","t","t","p","s",":","/","/","c","d","n","/","v",".","m","3","u","8">>

FormatUrl == <<"h","t","t","p","s",":","/","/","c","d","n","/","f">>

\* What ydl.extract_info returns: None (or an empty dict, as falsy), or a dict
\* whose 'url', 'manifest_url' and 'formats' entries may each be missing.
ExtractInfos ==
    { [none |-> TRUE, url |-> <<>>, manifest_url |-> <<>>, formats |-> <<>>] }
    \cup
    [ none : {FALSE},
      url : {<<>>, DirectUrl},
      manifest_url : {<<>>, ManifestUrl},
      formats : { <<>>,
                  << [url |-> FormatUrl] >>,
                  << [url |-> FormatUrl], [url |-> <<>>] >>,
                  << [url |-> <<>>], [url |-> FormatUrl] >> } ]

\* The sizes of the frames a source may decode.
FrameShapes == { [w |-> 1920, h |-> 1080], [w |-> 640, h |-> 480] }

RECURSIVE SeqsUpTo(_, _)
SeqsUpTo(S, n) ==
    IF n = 0 THEN { <<>> }
    ELSE LET shorter == SeqsUpTo(S, n - 1)
         IN  shorter \cup { Append(s, x) : s \in { t \in shorter : Len(t) = n - 1 }, x \in S }

\* The streams a finite Frame Source may hold: up to MaxFrames frames.  A live
\* source holds no stored frames: each of its reads produces one (ReadLive).
Streams == SeqsUpTo(FrameShapes, MaxFrames)

\* ------------------------------------------------------------------- state

VARIABLES
    pc,                 \* where the running adapter is
    adapter,            \* which adapter the script called: "none" before the call
    source,             \* the text of the adapter's text input
    button,             \* whether the adapter's button was pressed in this run
    is_display_tracker, \* first component of display_tracker_options()
    tracker,            \* second component: a tracker name, or "None"
    vid_cap,            \* the local vid_cap: "unbound", "None", or "cap"
    cap,                \* the cv2.VideoCapture object vid_cap is bound to
    stream,             \* the frames the Frame Source has still to deliver
    image,              \* the frame of the last successful read
    frame_count,        \* the number of successful reads (YouTube: frame_count)
    read_failed,        \* a read on the Frame Source has returned failure
    reads,              \* the number of vid_cap.read() calls made
    calls,              \* the calls made on the model, in order
    shown,              \* the frames published to st_frame, in order
    messages,           \* the messages written to the sidebar, in order
    stream_url,         \* the result of get_youtube_stream_url
    extract_calls,      \* the number of get_youtube_stream_url calls made
    open_calls,         \* the number of cv2.VideoCapture(...) calls made
    exc,                \* the exception raised and not yet handled, if any
    escaped,            \* an exception has left the adapter function
    live,               \* the source is live: its reads never return failure
    torch_load,         \* the function the global name torch.load is bound to
    lm_pc,              \* where each load_model call is
    model_path,         \* the argument of each load_model call
    original_load,      \* the local original_load of each load_model call
    lm_outcome,         \* what YOLO(model_path) did in each call
    lm_result,          \* how each load_model call ended
    load_log,           \* the calls that reached the library's own torch.load
    last_restore        \* the call that last executed line 38, 0 when none has

vars == << pc, adapter, source, button, is_display_tracker, tracker, vid_cap,
           cap, stream, image, frame_count, read_failed, reads, calls, shown,
           messages, stream_url, extract_calls, open_calls, exc, escaped, live,
           torch_load, lm_pc, model_path, original_load, lm_outcome, lm_result,
           load_log, last_restore >>

\* The state of the model loader.
loadVars == << torch_load, lm_pc, model_path, original_load, lm_outcome,
               lm_result, load_log, last_restore >>

\* The state of the adapters.
adapterVars == << pc, adapter, source, button, is_display_tracker, tracker,
                  vid_cap, cap, stream, image, frame_count, read_failed, reads,
                  calls, shown, messages, stream_url, extract_calls, open_calls,
                  exc, escaped, live >>

\* The load_model calls.
Threads == 1..MaxCalls

\* The library's own torch.load: a function is the sequence of the wrappers
\* around it, outermost first, each named by the call that made it.
OriginalTorchLoad == << >>

\* A name not yet bound to a capture object.
NoCap == [constructed |-> FALSE, opened |-> FALSE, was_opened |-> FALSE, releases |-> 0]

NoImage == [seq |-> 0, w |-> 0, h |-> 0]

\* No exception is pending; an exception with text t is.
NoExc == [raised |-> FALSE, text |-> <<>>]

Raised(t) == [raised |-> TRUE, text |-> t]

InitState ==
    /\ pc = "idle"
    /\ adapter = "none"
    /\ source = <<>>
    /\ button = FALSE
    /\ is_display_tracker = FALSE
    /\ tracker = "None"
    /\ vid_cap = "unbound"
    /\ cap = NoCap
    /\ stream = <<>>
    /\ image = NoImage
    /\ frame_count = 0
    /\ read_failed = FALSE
    /\ reads = 0
    /\ calls = <<>>
    /\ shown = <<>>
    /\ messages = <<>>
    /\ stream_url = <<>>
    /\ extract_calls = 0
    /\ open_calls = 0
    /\ exc = NoExc
    /\ escaped = FALSE
    /\ torch_load = OriginalTorchLoad
    /\ lm_pc = [t \in Threads |-> "idle"]
    /\ model_path = [t \in Threads |-> "None"]
    /\ original_load = [t \in Threads |-> OriginalTorchLoad]
    /\ lm_outcome = [t \in Threads |-> "None"]
    /\ lm_result = [t \in Threads |-> "None"]
    /\ load_log = << >>
    /\ last_restore = 0

\* The source of the run is a finite one: its reads end by failing.
Init == InitState /\ live = FALSE

\* The source of the run is finite or live.
LiveInit == InitState /\ live \in BOOLEAN

\* ------------------------------------------------- the cv2.VideoCapture object

\* cv2.VideoCapture(x) returning: the handle is open or not; an open handle
\* holds a stream.
Constructed(ok) == [constructed |-> TRUE, opened |-> ok, was_opened |-> ok, releases |-> 0]

\* A handle that reports open whatever its state.
isOpened_Always(c) == TRUE

\* vid_cap.isOpened()
isOpened(c) == c.opened

\* vid_cap.release()
release(c) == [c EXCEPT !.opened = FALSE, !.releases = @ + 1]

\* --------------------------------------------------- display_tracker_options

\* The tracker name is returned whether or not tracking is enabled.
display_tracker_options_NameAlways(radio) ==
    << radio.display_tracker = "Yes", radio.tracker_type >>

\* display_tracker_options(), as a function of the state of its radio widgets.
display_tracker_options(radio) ==
    LET display_tracker == radio.display_tracker
        flag == IF display_tracker = "Yes" THEN TRUE ELSE FALSE
    IN  IF flag THEN << flag, radio.tracker_type >>
                ELSE << flag, "None" >>

\* ------------------------------------------------- _display_detected_frames

TargetWidth == 720

\* int(720*(9/16)): 9/16 = 0.5625 and 720 * 0.5625 = 405.0 are exact in binary
\* floating point, and int() truncates.
TargetHeight == (TargetWidth * 9) \div 16

\* The width is set and the height follows the frame's own aspect ratio.
resize_KeepAspect(img) ==
    [img EXCEPT !.w = TargetWidth, !.h = (img.h * TargetWidth) \div img.w]

\* cv2.resize(image, (720, int(720*(9/16))))
resize(img) == [img EXCEPT !.w = TargetWidth, !.h = TargetHeight]

\* The tracking call without persist=True.
ModelCall_NoPersist(img, tracking, trk) ==
    IF tracking
        THEN [fn |-> "track", image |-> resize(img),
              kwargs |-> { <<"tracker", trk>> }]
        ELSE [fn |-> "predict", image |-> resize(img), kwargs |-> {}]

\* The call _display_detected_frames makes on the model for one frame.
ModelCall(img, tracking, trk) ==
    IF tracking
        THEN [fn |-> "track", image |-> resize(img),
              kwargs |-> { <<"persist", "True">>, <<"tracker", trk>> }]
        ELSE [fn |-> "predict", image |-> resize(img), kwargs |-> {}]

\* ---------------------------------------------------- get_youtube_stream_url

\* The block without its second `if not stream_url: raise`.
PickStreamUrl_NoCheck(info) ==
    IF info.none
        THEN [raised |-> TRUE, text |-> NoInfoText, url |-> <<>>]
    ELSE LET first == IF info.url # <<>> THEN info.url ELSE info.manifest_url
             picked == IF first = <<>> /\ info.formats # <<>>
                           THEN info.formats[Len(info.formats)].url
                           ELSE first
         IN  [raised |-> FALSE, text |-> <<>>, url |-> picked]

\* The body of the `with` block: the stream URL picked out of info, or the
\* text of the exception raised inside the block.
PickStreamUrl(info) ==
    IF info.none
        THEN [raised |-> TRUE, text |-> NoInfoText, url |-> <<>>]
    ELSE LET first == IF info.url # <<>> THEN info.url ELSE info.manifest_url
             picked == IF first = <<>> /\ info.formats # <<>>
                           THEN info.formats[Len(info.formats)].url
                           ELSE first
         IN  IF picked = <<>>
                 THEN [raised |-> TRUE, text |-> NoStreamUrlText, url |-> <<>>]
                 ELSE [raised |-> FALSE, text |-> <<>>, url |-> picked]

\* get_youtube_stream_url: lib is what ydl.extract_info did, returning info
\* or raising an exception with a text.  Every exception is re-raised with
\* the prefix.
get_youtube_stream_url(lib) ==
    LET inner == IF lib.raised THEN [raised |-> TRUE, text |-> lib.text, url |-> <<>>]
                               ELSE PickStreamUrl(lib.info)
    IN  IF inner.raised
            THEN [raised |-> TRUE, text |-> ExtractionPrefix \o inner.text, url |-> <<>>]
            ELSE inner

\* What ydl.extract_info may do.
ExtractOutcomes ==
    { [raised |-> FALSE, info |-> i, text |-> <<>>] : i \in ExtractInfos }
    \cup
    { [raised |-> TRUE, info |-> [none |-> TRUE, url |-> <<>>, manifest_url |-> <<>>, formats |-> <<>>], text |-> t] : t \in LibErrorTexts }

\* ------------------------------------------------------------ the sidebar

Msg(level, kind, text) == [level |-> level, kind |-> kind, text |-> text]

\* ------------------------------------------------------- play_youtube_video

\* `not source_youtube`
EmptyInput(s) == s = <<>>

\* Only the watch form is accepted.
ValidYoutubeUrl_WatchOnly(s) == Contains(WatchNeedle, s)

\* 'youtube.com/watch' in source_youtube or 'youtu.be/' in source_youtube
ValidYoutubeUrl(s) == Contains(WatchNeedle, s) \/ Contains(ShortNeedle, s)

\* The widgets are read, and the button and the two validation checks are passed
\* or not.
play_youtube_video_Start ==
    /\ pc = "idle"
    /\ \E s \in YoutubeInputs, radio \in RadioStates, pressed \in BOOLEAN :
        /\ adapter' = "youtube"
        /\ source' = s
        /\ button' = pressed
        /\ is_display_tracker' = display_tracker_options(radio)[1]
        /\ tracker' = display_tracker_options(radio)[2]
        /\ IF ~pressed
              THEN /\ pc' = "done"
                   /\ UNCHANGED << messages, vid_cap >>
           ELSE IF EmptyInput(s)
              THEN /\ messages' = Append(messages, Msg("error", "enter_url", <<>>))
                   /\ pc' = "done"
                   /\ UNCHANGED vid_cap
           ELSE IF ~ValidYoutubeUrl(s)
              THEN /\ messages' = Append(messages, Msg("error", "invalid_url", <<>>))
                   /\ pc' = "done"
                   /\ UNCHANGED vid_cap
           ELSE /\ vid_cap' = "None"
                /\ pc' = "yt_extract"
                /\ UNCHANGED messages
    /\ UNCHANGED << cap, stream, image, frame_count, read_failed, reads, calls,
                    shown, stream_url, extract_calls, open_calls, exc, escaped >>
    /\ UNCHANGED << live, loadVars >>

\* Step 1: the stream URL is extracted, or the extraction raises.
play_youtube_video_Extract ==
    /\ pc = "yt_extract"
    /\ extract_calls' = extract_calls + 1
    /\ \E lib \in ExtractOutcomes :
        LET r == get_youtube_stream_url(lib)
            told == Append(messages, Msg("info", "extracting", <<>>))
        IN  IF r.raised
               THEN /\ exc' = Raised(r.text)
                    /\ messages' = told
                    /\ pc' = "yt_except"
                    /\ UNCHANGED stream_url
            ELSE IF r.url = <<>>
               THEN /\ messages' = Append(told, Msg("error", "no_stream_url", <<>>))
                    /\ stream_url' = r.url
                    /\ pc' = "yt_finally"
                    /\ UNCHANGED exc
            ELSE /\ messages' = told
                 /\ stream_url' = r.url
                 /\ pc' = "yt_open"
                 /\ UNCHANGED exc
    /\ UNCHANGED << adapter, source, button, is_display_tracker, tracker, vid_cap,
                    cap, stream, image, frame_count, read_failed, reads, calls,
                    shown, open_calls, escaped >>
    /\ UNCHANGED << live, loadVars >>

\* Step 2: cv2.VideoCapture(stream_url) returns a handle, open or not, or raises.
play_youtube_video_Open ==
    /\ pc = "yt_open"
    /\ open_calls' = open_calls + 1
    /\ \/ \E t \in LibErrorTexts :
            /\ exc' = Raised(t)
            /\ messages' = Append(messages, Msg("info", "opening", <<>>))
            /\ pc' = "yt_except"
            /\ UNCHANGED << vid_cap, cap, stream >>
       \/ \E ok \in BOOLEAN, frames \in Streams :
            /\ (~ok \/ live) => frames = <<>>
            /\ cap' = Constructed(ok)
            /\ vid_cap' = "cap"
            /\ stream' = frames
            /\ messages' = Append(messages, Msg("info", "opening", <<>>))
            /\ pc' = "yt_check"
            /\ UNCHANGED exc
    /\ UNCHANGED << adapter, source, button, is_display_tracker, tracker, image,
                    frame_count, read_failed, reads, calls, shown, stream_url,
                    extract_calls, escaped >>
    /\ UNCHANGED << live, loadVars >>

\* Step 3: `if not vid_cap.isOpened()`: the open failure is reported and the
\* function returns; otherwise the loop is set up.
play_youtube_video_CheckOpened ==
    /\ pc = "yt_check"
    /\ IF ~isOpened(cap)
          THEN /\ messages' = Append(messages, Msg("error", "open_failed", <<>>))
               /\ pc' = "yt_finally"
               /\ UNCHANGED frame_count
          ELSE /\ messages' = messages \o << Msg("success", "opened", <<>>),
                                             Msg("info", "resolution", <<>>) >>
               /\ frame_count' = 0
               /\ pc' = "loop"
    /\ UNCHANGED << adapter, source, button, is_display_tracker, tracker, vid_cap,
                    cap, stream, image, read_failed, reads, calls, shown,
                    stream_url, extract_calls, open_calls, exc, escaped >>
    /\ UNCHANGED << live, loadVars >>

\* The connection markers are looked for before the extraction marker.
YoutubeErrorKind_PipeFirst(error_msg) ==
    IF Contains(BrokenPipeMarker, error_msg) \/ Contains(ErrnoMarker, error_msg)
        THEN "stream_connection_error"
    ELSE IF Contains(ExtractionMarker, error_msg) THEN "extraction_error"
    ELSE "generic_error"

\* The error message the except clause picks from the exception's text.
YoutubeErrorKind(error_msg) ==
    IF Contains(ExtractionMarker, error_msg) THEN "extraction_error"
    ELSE IF Contains(BrokenPipeMarker, error_msg) \/ Contains(ErrnoMarker, error_msg)
        THEN "stream_connection_error"
    ELSE "generic_error"

\* except Exception as e
play_youtube_video_Except ==
    /\ pc = "yt_except"
    /\ messages' = Append(messages, Msg("error", YoutubeErrorKind(exc.text), exc.text))
    /\ exc' = NoExc
    /\ pc' = "yt_finally"
    /\ UNCHANGED << adapter, source, button, is_display_tracker, tracker, vid_cap,
                    cap, stream, image, frame_count, read_failed, reads, calls,
                    shown, stream_url, extract_calls, open_calls, escaped >>
    /\ UNCHANGED << live, loadVars >>

\* finally: `if vid_cap is not None: vid_cap.release()`
play_youtube_video_Finally ==
    /\ pc = "yt_finally"
    /\ cap' = IF vid_cap # "None" THEN release(cap) ELSE cap
    /\ pc' = "done"
    /\ UNCHANGED << adapter, source, button, is_display_tracker, tracker, vid_cap,
                    stream, image, frame_count, read_failed, reads, calls, shown,
                    messages, stream_url, extract_calls, open_calls, exc, escaped >>
    /\ UNCHANGED << live, loadVars >>

\* ------------------------------------------------------- play_rtsp_stream

\* try: vid_cap = cv2.VideoCapture(x): the constructor returns a handle, open
\* or not, and vid_cap is bound to it; or it raises, and vid_cap stays as it was.
OpenInTry(handler) ==
    /\ open_calls' = open_calls + 1
    /\ \/ \E t \in LibErrorTexts :
            /\ exc' = Raised(t)
            /\ pc' = handler
            /\ UNCHANGED << vid_cap, cap, stream >>
       \/ \E ok \in BOOLEAN, frames \in Streams :
            /\ (~ok \/ live) => frames = <<>>
            /\ cap' = Constructed(ok)
            /\ vid_cap' = "cap"
            /\ stream' = frames
            /\ pc' = "loop"
            /\ UNCHANGED exc

\* The widgets are read; the button is pressed or not.  The URL text is not
\* looked at before the try block.
play_rtsp_stream_Start ==
    /\ pc = "idle"
    /\ \E s \in RtspInputs, radio \in RadioStates, pressed \in BOOLEAN :
        /\ adapter' = "rtsp"
        /\ source' = s
        /\ button' = pressed
        /\ is_display_tracker' = display_tracker_options(radio)[1]
        /\ tracker' = display_tracker_options(radio)[2]
        /\ pc' = IF pressed THEN "rtsp_open" ELSE "done"
    /\ UNCHANGED << vid_cap, cap, stream, image, frame_count, read_failed, reads,
                    calls, shown, messages, stream_url, extract_calls, open_calls, exc, escaped >>
    /\ UNCHANGED << live, loadVars >>

play_rtsp_stream_Open ==
    /\ pc = "rtsp_open"
    /\ OpenInTry("rtsp_except")
    /\ UNCHANGED << adapter, source, button, is_display_tracker, tracker, image,
                    frame_count, read_failed, reads, calls, shown, messages,
                    stream_url, extract_calls, escaped >>
    /\ UNCHANGED << live, loadVars >>

\* except Exception as e: vid_cap.release(), then the message.  Naming vid_cap
\* while it is unbound raises UnboundLocalError inside the handler, which
\* leaves the function before the message is written.
play_rtsp_stream_Except ==
    /\ pc = "rtsp_except"
    /\ IF vid_cap = "unbound"
          THEN /\ exc' = Raised(<<"U","n","b","o","u","n","d","L","o","c","a","l","E","r","r","o","r">>)
               /\ escaped' = TRUE
               /\ UNCHANGED << cap, messages >>
          ELSE /\ cap' = release(cap)
               /\ messages' = Append(messages, Msg("error", "rtsp_error", exc.text))
               /\ exc' = NoExc
               /\ UNCHANGED escaped
    /\ pc' = "done"
    /\ UNCHANGED << adapter, source, button, is_display_tracker, tracker, vid_cap,
                    stream, image, frame_count, read_failed, reads, calls, shown,
                    stream_url, extract_calls, open_calls >>
    /\ UNCHANGED << live, loadVars >>

\* ------------------------------------------------------------- play_webcam

\* settings.WEBCAM_PATH
WebcamPath == <<"0">>

play_webcam_Start ==
    /\ pc = "idle"
    /\ \E radio \in RadioStates, pressed \in BOOLEAN :
        /\ adapter' = "webcam"
        /\ source' = WebcamPath
        /\ button' = pressed
        /\ is_display_tracker' = display_tracker_options(radio)[1]
        /\ tracker' = display_tracker_options(radio)[2]
        /\ pc' = IF pressed THEN "webcam_open" ELSE "done"
    /\ UNCHANGED << vid_cap, cap, stream, image, frame_count, read_failed, reads,
                    calls, shown, messages, stream_url, extract_calls, open_calls, exc, escaped >>
    /\ UNCHANGED << live, loadVars >>

play_webcam_Open ==
    /\ pc = "webcam_open"
    /\ OpenInTry("webcam_except")
    /\ UNCHANGED << adapter, source, button, is_display_tracker, tracker, image,
                    frame_count, read_failed, reads, calls, shown, messages,
                    stream_url, extract_calls, escaped >>
    /\ UNCHANGED << live, loadVars >>

\* except Exception as e: the message only.
play_webcam_Except ==
    /\ pc = "webcam_except"
    /\ messages' = Append(messages, Msg("error", "video_error", exc.text))
    /\ exc' = NoExc
    /\ pc' = "done"
    /\ UNCHANGED << adapter, source, button, is_display_tracker, tracker, vid_cap,
                    cap, stream, image, frame_count, read_failed, reads, calls,
                    shown, stream_url, extract_calls, open_calls, escaped >>
    /\ UNCHANGED << live, loadVars >>

\* ------------------------------------------------------- play_stored_video

\* The keys of settings.VIDEOS_DICT.
VideoNames == { <<"v","i","d","e","o","_","1">>, <<"v","i","d","e","o","_","2">> }

\* The widgets are read and the chosen file is read for the preview, outside
\* any try block: a file that cannot be read raises out of the function.
play_stored_video_Start ==
    /\ pc = "idle"
    /\ \E s \in VideoNames, radio \in RadioStates, pressed \in BOOLEAN,
          readable \in BOOLEAN :
        /\ adapter' = "stored"
        /\ source' = s
        /\ is_display_tracker' = display_tracker_options(radio)[1]
        /\ tracker' = display_tracker_options(radio)[2]
        /\ IF ~readable
              THEN /\ exc' = Raised(<<"O","S","E","r","r","o","r">>)
                   /\ escaped' = TRUE
                   /\ button' = FALSE
                   /\ pc' = "done"
              ELSE /\ button' = pressed
                   /\ pc' = IF pressed THEN "stored_open" ELSE "done"
                   /\ UNCHANGED << exc, escaped >>
    /\ UNCHANGED << vid_cap, cap, stream, image, frame_count, read_failed, reads,
                    calls, shown, messages, stream_url, extract_calls, open_calls >>
    /\ UNCHANGED << live, loadVars >>

play_stored_video_Open ==
    /\ pc = "stored_open"
    /\ OpenInTry("stored_except")
    /\ UNCHANGED << adapter, source, button, is_display_tracker, tracker, image,
                    frame_count, read_failed, reads, calls, shown, messages,
                    stream_url, extract_calls, escaped >>
    /\ UNCHANGED << live, loadVars >>

\* except Exception as e: the message only.
play_stored_video_Except ==
    /\ pc = "stored_except"
    /\ messages' = Append(messages, Msg("error", "video_error", exc.text))
    /\ exc' = NoExc
    /\ pc' = "done"
    /\ UNCHANGED << adapter, source, button, is_display_tracker, tracker, vid_cap,
                    cap, stream, image, frame_count, read_failed, reads, calls,
                    shown, stream_url, extract_calls, open_calls, escaped >>
    /\ UNCHANGED << live, loadVars >>

\* ------------------------------------------------------- the playback loop
\* The four adapters hold the same loop; they differ in what the else branch
\* of a failed read does and in where control goes when the loop is left.

\* `continue` where the code has `break`: control returns to the loop test.
AfterLoop_Continue(a) == "loop"

\* Where control goes when the loop is left: the YouTube adapter's finally
\* clause; the end of the other three functions.
AfterLoop(a) == IF a = "youtube" THEN "yt_finally" ELSE "done"

\* The except clause of each adapter's try block.
Handler(a) ==
    CASE a = "youtube" -> "yt_except"
      [] a = "rtsp" -> "rtsp_except"
      [] a = "webcam" -> "webcam_except"
      [] a = "stored" -> "stored_except"

\* Every else branch releases, the YouTube adapter's too.
ReleasesOnFailedRead_Always(a) == TRUE

\* No else branch releases.
ReleasesOnFailedRead_Never(a) == FALSE

\* Whether the else branch of the loop calls vid_cap.release() before break.
ReleasesOnFailedRead(a) == a \in {"rtsp", "webcam", "stored"}

\* while vid_cap.isOpened():
LoopTest ==
    /\ pc = "loop"
    /\ pc' = IF isOpened(cap) THEN "read" ELSE AfterLoop(adapter)
    /\ UNCHANGED << adapter, source, button, is_display_tracker, tracker, vid_cap,
                    cap, stream, image, frame_count, read_failed, reads, calls,
                    shown, messages, stream_url, extract_calls, open_calls, exc, escaped >>
    /\ UNCHANGED << live, loadVars >>

\* success, image = vid_cap.read(), and the else branch when success is false.
\* A read on a finite source may fail while frames are left (a transient
\* failure) and must fail when none is left.
Read ==
    /\ pc = "read"
    /\ ~live
    /\ reads' = reads + 1
    /\ \/ /\ stream # <<>>
          /\ image' = [seq |-> frame_count + 1, w |-> Head(stream).w, h |-> Head(stream).h]
          /\ stream' = Tail(stream)
          /\ frame_count' = frame_count + 1
          /\ pc' = "render"
          /\ UNCHANGED << cap, read_failed, messages >>
       \/ /\ read_failed' = TRUE
          /\ cap' = IF ReleasesOnFailedRead(adapter) THEN release(cap) ELSE cap
          /\ messages' = IF adapter = "youtube"
                            THEN Append(messages, Msg("info", "stream_ended", <<>>))
                            ELSE messages
          /\ pc' = AfterLoop(adapter)
          /\ UNCHANGED << stream, image, frame_count >>
    /\ UNCHANGED << adapter, source, button, is_display_tracker, tracker, vid_cap,
                    calls, shown, stream_url, extract_calls, open_calls, exc, escaped >>
    /\ UNCHANGED << live, loadVars >>

\* success, image = vid_cap.read() on a live source: the read returns a frame,
\* whatever number of frames was read before.
ReadLive ==
    /\ pc = "read"
    /\ live
    /\ frame_count < MaxLiveReads
    /\ reads' = reads + 1
    /\ \E shape \in FrameShapes :
          image' = [seq |-> frame_count + 1, w |-> shape.w, h |-> shape.h]
    /\ frame_count' = frame_count + 1
    /\ pc' = "render"
    /\ UNCHANGED << adapter, source, button, is_display_tracker, tracker, vid_cap,
                    cap, stream, read_failed, calls, shown, messages, stream_url,
                    extract_calls, open_calls, exc, escaped >>
    /\ UNCHANGED << live, loadVars >>

\* The loop is left after the first frame is rendered.
Render_ThenLeave ==
    /\ pc = "render"
    /\ calls' = Append(calls, ModelCall(image, is_display_tracker, tracker))
    /\ \/ \E t \in LibErrorTexts :
            /\ exc' = Raised(t)
            /\ pc' = Handler(adapter)
            /\ UNCHANGED shown
       \/ /\ shown' = Append(shown, resize(image))
          /\ pc' = AfterLoop(adapter)
          /\ UNCHANGED exc
    /\ UNCHANGED << adapter, source, button, is_display_tracker, tracker, vid_cap,
                    cap, stream, image, frame_count, read_failed, reads, messages,
                    stream_url, extract_calls, open_calls, escaped >>
    /\ UNCHANGED << live, loadVars >>

\* _display_detected_frames(conf, model, st_frame, image, is_display_tracker,
\* tracker): the model is called; the call raises, or its result is plotted
\* and published to st_frame.
Render ==
    /\ pc = "render"
    /\ calls' = Append(calls, ModelCall(image, is_display_tracker, tracker))
    /\ \/ \E t \in LibErrorTexts :
            /\ exc' = Raised(t)
            /\ pc' = Handler(adapter)
            /\ UNCHANGED shown
       \/ /\ shown' = Append(shown, resize(image))
          /\ pc' = "loop"
          /\ UNCHANGED exc
    /\ UNCHANGED << adapter, source, button, is_display_tracker, tracker, vid_cap,
                    cap, stream, image, frame_count, read_failed, reads, messages,
                    stream_url, extract_calls, open_calls, escaped >>
    /\ UNCHANGED << live, loadVars >>

\* -------------------------------------------------------------- load_model

\* The weights file load_model is called with; whether it can be loaded is
\* the outcome of the construction.
ModelPaths == {"weights/yolov8n.pt"}

\* The weights_only argument a caller of torch.load passes, if any.
WeightsOnlyArgs == {"absent", "True", "False"}

\* patched_load of call t: a wrapper around the function f it saved.
patched_load(f, t) == << t >> \o f

\* Calling the function f with weights_only = kw: every wrapper sets
\* kwargs['weights_only'] = False and calls the function it wraps; the result
\* is the weights_only the library's own torch.load is called with.
RECURSIVE CallTorchLoad(_, _)
CallTorchLoad(f, kw) ==
    IF f = OriginalTorchLoad THEN kw ELSE CallTorchLoad(Tail(f), "False")

\* original_load = torch.load
load_model_Save(t) ==
    /\ lm_pc[t] = "idle"
    /\ \E path \in ModelPaths : model_path' = [model_path EXCEPT ![t] = path]
    /\ original_load' = [original_load EXCEPT ![t] = torch_load]
    /\ lm_pc' = [lm_pc EXCEPT ![t] = "patch"]
    /\ UNCHANGED << torch_load, lm_outcome, lm_result, load_log, last_restore >>
    /\ UNCHANGED adapterVars

\* torch.load = patched_load
load_model_Patch(t) ==
    /\ lm_pc[t] = "patch"
    /\ torch_load' = patched_load(original_load[t], t)
    /\ lm_pc' = [lm_pc EXCEPT ![t] = "construct"]
    /\ UNCHANGED << model_path, original_load, lm_outcome, lm_result, load_log,
                    last_restore >>
    /\ UNCHANGED adapterVars

\* Inside YOLO(model_path): the library calls whatever torch.load is bound to
\* at that moment.
load_model_TorchLoad(t) ==
    /\ lm_pc[t] = "construct"
    /\ Len(load_log) < MaxTorchLoads
    /\ \E kw \in WeightsOnlyArgs :
          load_log' = Append(load_log, [by |-> t, asked |-> kw,
                                        weights_only |-> CallTorchLoad(torch_load, kw)])
    /\ UNCHANGED << torch_load, lm_pc, model_path, original_load, lm_outcome,
                    lm_result, last_restore >>
    /\ UNCHANGED adapterVars

\* model = YOLO(model_path) returns the model or raises.
load_model_Construct(t) ==
    /\ lm_pc[t] = "construct"
    /\ \E outcome \in {"model", "raised"} :
          lm_outcome' = [lm_outcome EXCEPT ![t] = outcome]
    /\ lm_pc' = [lm_pc EXCEPT ![t] = "finally"]
    /\ UNCHANGED << torch_load, model_path, original_load, lm_result, load_log,
                    last_restore >>
    /\ UNCHANGED adapterVars

\* The construction raised without the restore having run.
load_model_Restore_OnSuccessOnly(t) ==
    /\ lm_pc[t] = "finally"
    /\ torch_load' = IF lm_outcome[t] = "raised" THEN torch_load ELSE original_load[t]
    /\ last_restore' = t
    /\ lm_result' = [lm_result EXCEPT ![t] =
                        IF lm_outcome[t] = "raised" THEN "raised" ELSE "returned"]
    /\ lm_pc' = [lm_pc EXCEPT ![t] = "done"]
    /\ UNCHANGED << model_path, original_load, lm_outcome, load_log >>
    /\ UNCHANGED adapterVars

\* The restore sets the library's own function instead of the saved one.
load_model_Restore_Reset(t) ==
    /\ lm_pc[t] = "finally"
    /\ torch_load' = OriginalTorchLoad
    /\ last_restore' = t
    /\ lm_result' = [lm_result EXCEPT ![t] =
                        IF lm_outcome[t] = "raised" THEN "raised" ELSE "returned"]
    /\ lm_pc' = [lm_pc EXCEPT ![t] = "done"]
    /\ UNCHANGED << model_path, original_load, lm_outcome, load_log >>
    /\ UNCHANGED adapterVars

\* finally: torch.load = original_load; then `return model`, or the exception
\* of the construction goes on to the caller.
load_model_Restore(t) ==
    /\ lm_pc[t] = "finally"
    /\ torch_load' = original_load[t]
    /\ last_restore' = t
    /\ lm_result' = [lm_result EXCEPT ![t] =
                        IF lm_outcome[t] = "raised" THEN "raised" ELSE "returned"]
    /\ lm_pc' = [lm_pc EXCEPT ![t] = "done"]
    /\ UNCHANGED << model_path, original_load, lm_outcome, load_log >>
    /\ UNCHANGED adapterVars

\* No load_model call is between its first and its last statement.
NoCallInFlight == \A u \in Threads : lm_pc[u] \in {"idle", "done"}

\* A call made by a script that makes its calls one after the other.
load_model_Call(t) == NoCallInFlight /\ load_model_Save(t)

\* Successive load_model calls of one thread.
LoadNext ==
    \E t \in Threads :
        \/ load_model_Call(t)
        \/ load_model_Patch(t)
        \/ load_model_TorchLoad(t)
        \/ load_model_Construct(t)
        \/ load_model_Restore(t)

SpecLoad == Init /\ [][LoadNext]_vars

\* load_model calls of sessions that run as threads of one process: their
\* statements interleave.
ConcurrentLoadNext ==
    \E t \in Threads :
        \/ load_model_Save(t)
        \/ load_model_Patch(t)
        \/ load_model_TorchLoad(t)
        \/ load_model_Construct(t)
        \/ load_model_Restore(t)

SpecLoadConcurrent == Init /\ [][ConcurrentLoadNext]_vars

\* ------------------------------------------------------ the specification

Next ==
    \/ play_youtube_video_Start
    \/ play_youtube_video_Extract
    \/ play_youtube_video_Open
    \/ play_youtube_video_CheckOpened
    \/ play_youtube_video_Except
    \/ play_youtube_video_Finally
    \/ play_rtsp_stream_Start
    \/ play_rtsp_stream_Open
    \/ play_rtsp_stream_Except
    \/ play_webcam_Start
    \/ play_webcam_Open
    \/ play_webcam_Except
    \/ play_stored_video_Start
    \/ play_stored_video_Open
    \/ play_stored_video_Except
    \/ LoopTest
    \/ Read
    \/ Render

Spec == Init /\ [][Next]_vars

\* The adapters on finite and on live sources.  The interpreter goes on
\* executing the adapter's statements and every library call returns, so a
\* step that can be taken is taken.
LiveNext == Next \/ ReadLive

SpecLive == LiveInit /\ [][LiveNext]_vars /\ WF_vars(LiveNext)

\* The state has the shape the actions assume.
TypeOK ==
    /\ pc \in {"idle", "yt_extract", "yt_open", "yt_check", "yt_except", "yt_finally",
               "rtsp_open", "rtsp_except", "webcam_open", "webcam_except",
               "stored_open", "stored_except", "loop", "read", "render", "done"}
    /\ adapter \in {"none", "youtube", "rtsp", "webcam", "stored"}
    /\ button \in BOOLEAN
    /\ is_display_tracker \in BOOLEAN
    /\ tracker \in TrackerNames \cup {"None"}
    /\ vid_cap \in {"unbound", "None", "cap"}
    /\ cap.releases \in Nat
    /\ frame_count \in 0..(IF live THEN MaxLiveReads ELSE MaxFrames)
    /\ live \in BOOLEAN
    /\ Len(stream) <= MaxFrames
    /\ read_failed \in BOOLEAN
    /\ escaped \in BOOLEAN
    /\ extract_calls \in 0..1
    /\ open_calls \in 0..1

\* ------------------------------------------------------------ the claims

\* Some message of the given level is in the sidebar.
HasMessage(level) == \E i \in 1..Len(messages) : messages[i].level = level

\* C1: in every adapter, a Frame Source that was opened successfully has been
\* released exactly once when the adapter has exited, whichever way it exited.
C1_ReleasedExactlyOnceOnExit ==
    (pc = "done" /\ cap.was_opened) => cap.releases = 1

\* C2: when a source that opened delivers N successful reads and then a failed
\* read, the renderer has been called exactly N times, once per frame read and
\* in the order read, and the Frame Source has been released exactly once.
C2_ExhaustionRendersEachFrameOnce ==
    (pc = "done" /\ read_failed) =>
        /\ Len(calls) = frame_count
        /\ \A i \in 1..Len(calls) : calls[i].image.seq = i
        /\ Len(shown) = frame_count
        /\ \A i \in 1..Len(shown) : shown[i].seq = i
        /\ cap.releases = 1

\* C2's case: the stored-video adapter has read two frames, then a read failed.
C2_Witness ==
    /\ pc = "done"
    /\ adapter = "stored"
    /\ read_failed
    /\ frame_count = 2
    /\ Len(shown) = 2

\* C3: once a read has returned failure, control is out of the playback loop, no
\* exception is pending or has left the adapter, and when the adapter has
\* exited the Frame Source is released.
C3_FailedReadEndsLoopQuietly ==
    read_failed =>
        /\ pc \in {"yt_finally", "done"}
        /\ ~exc.raised
        /\ ~escaped
        /\ pc = "done" => (cap.releases >= 1 /\ ~isOpened(cap))

\* C3's case: a read failed in the middle of the stream, after a frame was
\* rendered and with a frame still to deliver.
C3_Witness ==
    /\ read_failed
    /\ pc = "done"
    /\ frame_count >= 1
    /\ stream # <<>>
    /\ adapter = "rtsp"

\* C4: after the button is pressed, no failure during opening or streaming
\* leaves the adapter as an exception.
C4_NoExceptionEscapes ==
    button => ~escaped

\* C5: if the handle reports not usable right after construction, no read and
\* no render call is ever made.
C5_OpenFailureNeverEntersLoop ==
    (cap.constructed /\ ~cap.was_opened) =>
        /\ reads = 0
        /\ calls = <<>>
        /\ shown = <<>>
        /\ pc \notin {"read", "render"}

\* C5's case: the webcam adapter has exited after its handle did not open.
C5_Witness ==
    /\ pc = "done"
    /\ adapter = "webcam"
    /\ cap.constructed
    /\ ~cap.was_opened

\* C6: in every adapter, when the opened handle reports it is not usable, an
\* error message has been written by the time the adapter exits, and the
\* playback loop has not started.
C6_OpenFailureIsReported ==
    (pc = "done" /\ cap.constructed /\ ~cap.was_opened) =>
        (HasMessage("error") /\ reads = 0)

\* C7: in the YouTube adapter with the button pressed, the input passes
\* validation exactly when it contains 'youtube.com/watch' or 'youtu.be/';
\* for a rejected input an error message is shown and neither the extraction
\* nor the capture open is performed.
C7_YoutubeValidation ==
    (adapter = "youtube" /\ button) =>
        LET accepted == Contains(WatchNeedle, source) \/ Contains(ShortNeedle, source)
        IN  /\ accepted <=> vid_cap # "unbound"
            /\ accepted => (pc = "done" => extract_calls = 1)
            /\ ~accepted =>
                 /\ pc = "done"
                 /\ Len(messages) = 1
                 /\ messages[1].level = "error"
                 /\ extract_calls = 0
                 /\ open_calls = 0

\* C7's case: a text that is not empty and holds neither needle was rejected.
C7_Witness ==
    /\ adapter = "youtube"
    /\ button
    /\ source # <<>>
    /\ ~Contains(WatchNeedle, source)
    /\ ~Contains(ShortNeedle, source)
    /\ pc = "done"
    /\ HasMessage("error")

\* C8: in the RTSP adapter, with the button pressed and the URL text empty, no
\* Frame Source is constructed and the rejection is reported inline, without
\* an exception.
C8_EmptyRtspUrlRejected ==
    (adapter = "rtsp" /\ button /\ source = <<>>) =>
        /\ open_calls = 0
        /\ ~escaped
        /\ pc = "done" => HasMessage("error")

\* C9: every frame handed to the renderer causes exactly one model call: with
\* tracking enabled the tracking entry point, with persist=True and the
\* tracker name chosen before the loop; with tracking disabled the plain
\* detection entry point; the same choice on every frame of the session.
C9_OneEntryPointPerSession ==
    /\ Len(calls) = IF pc = "render" THEN frame_count - 1 ELSE frame_count
    /\ \A i \in 1..Len(calls) :
         /\ calls[i].image.seq = i
         /\ IF is_display_tracker
               THEN /\ calls[i].fn = "track"
                    /\ calls[i].kwargs = { <<"persist", "True">>, <<"tracker", tracker>> }
                    /\ tracker \in {"bytetrack.yaml", "botsort.yaml"}
               ELSE /\ calls[i].fn = "predict"
                    /\ calls[i].kwargs = {}

\* C9's case: two frames rendered in a session with tracking enabled.
C9_Witness ==
    /\ Len(calls) = 2
    /\ is_display_tracker
    /\ tracker = "bytetrack.yaml"
    /\ calls[2].fn = "track"

\* C10: what display_tracker_options returned is (false, None) or (true, one
\* of the two tracker configuration names).
C10_TrackerSelectionWellFormed ==
    adapter # "none" =>
        \/ (is_display_tracker /\ tracker \in {"bytetrack.yaml", "botsort.yaml"})
        \/ (~is_display_tracker /\ tracker = "None")

\* C10's case: the selector has returned with tracking enabled and the second name.
C10_Witness ==
    /\ adapter # "none"
    /\ is_display_tracker
    /\ tracker = "botsort.yaml"

\* C11: for load_model calls made one after the other, torch.load is the
\* call's relaxed wrapper exactly while the model is being constructed; when
\* the call has exited, by returning or by the construction raising,
\* torch.load is again the function installed before the call, and the call
\* raised exactly when the construction did.
C11_OverrideOnlyDuringCall ==
    \A t \in Threads :
        /\ (torch_load = patched_load(original_load[t], t))
              <=> (lm_pc[t] \in {"construct", "finally"})
        /\ (lm_pc[t] = "done" /\ NoCallInFlight) =>
              /\ torch_load = original_load[t]
              /\ torch_load = OriginalTorchLoad
              /\ lm_result[t] = (IF lm_outcome[t] = "raised" THEN "raised" ELSE "returned")
        /\ \A i \in 1..Len(load_log) : load_log[i].weights_only = "False"

\* C11's case: a call whose construction called torch.load with
\* weights_only=True and then raised has exited.
C11_Witness ==
    /\ lm_pc[1] = "done"
    /\ lm_outcome[1] = "raised"
    /\ lm_result[1] = "raised"
    /\ \E i \in 1..Len(load_log) : load_log[i].by = 1 /\ load_log[i].asked = "True"
    /\ torch_load = OriginalTorchLoad

\* C12: every frame handed to the model, by the tracking or the detection
\* entry point, is 720 wide and 405 high, whatever the size of the frame read
\* and whichever adapter read it.
C12_ModelSeesFixedSize ==
    \A i \in 1..Len(calls) :
        /\ calls[i].image.w = 720
        /\ calls[i].image.h = 405

\* C12's case: the RTSP adapter read a 640 by 480 frame and handed it to the model.
C12_Witness ==
    /\ adapter = "rtsp"
    /\ Len(calls) >= 1
    /\ image.w = 640
    /\ image.h = 480
    /\ calls[Len(calls)].image.seq = image.seq

\* The messages the except clause of play_youtube_video writes.
HandlerKinds == {"extraction_error", "stream_connection_error", "generic_error"}

\* C13: in the YouTube adapter the step that handles a caught exception writes
\* exactly one error message: the extraction-error message when the text
\* holds 'YouTube extraction failed', otherwise the stream-connection message
\* when it holds 'Broken pipe' or 'Errno 32', otherwise the generic message;
\* then the adapter goes through its finally clause and exits, with no further
\* extraction, open, read or message.
C13_OneMessagePerCaughtException ==
    [][ /\ pc = "yt_except" =>
              /\ exc.raised
              /\ \E kind \in HandlerKinds :
                    /\ messages' = Append(messages, Msg("error", kind, exc.text))
                    /\ kind = "extraction_error"
                          <=> Contains(ExtractionMarker, exc.text)
                    /\ kind = "stream_connection_error"
                          <=> /\ ~Contains(ExtractionMarker, exc.text)
                              /\ \/ Contains(BrokenPipeMarker, exc.text)
                                 \/ Contains(ErrnoMarker, exc.text)
              /\ pc' = "yt_finally"
              /\ UNCHANGED << extract_calls, open_calls, reads, calls >>
        /\ pc = "yt_finally" =>
              /\ pc' = "done"
              /\ UNCHANGED << messages, extract_calls, open_calls, reads, calls >>
      ]_vars

\* C13's case: an extraction failure whose text also holds 'Broken pipe' was
\* reported with the extraction-error message, and the adapter has exited.
C13_Witness ==
    /\ adapter = "youtube"
    /\ pc = "done"
    /\ \E i \in 1..Len(messages) :
          /\ messages[i].kind = "extraction_error"
          /\ Contains(BrokenPipeMarker, messages[i].text)

\* C16: in no adapter is release() called more than once on a Frame Source,
\* and once the source has been released or one of its reads has returned
\* failure, no step reads from it, queries isOpened on it, or renders a frame.
C16_NoUseAfterReleaseOrFailedRead ==
    [][ /\ cap'.releases <= 1
        /\ (cap.releases >= 1 \/ read_failed) =>
              /\ reads' = reads
              /\ calls' = calls
              /\ shown' = shown
              /\ pc \notin {"yt_check", "loop", "read", "render"}
      ]_vars

\* C16's case: the RTSP adapter rendered a frame, the next model call raised,
\* and the except clause released the source.
C16_Witness ==
    /\ adapter = "rtsp"
    /\ pc = "done"
    /\ Len(shown) >= 1
    /\ Len(calls) > Len(shown)
    /\ cap.releases = 1

\* C17: get_youtube_stream_url returns a non-empty URL or raises with a text
\* that starts with 'YouTube extraction failed: '; so the 'Failed to extract
\* video URL' message is never written and every extraction failure is
\* reported with the extraction-error message.
C17_ExtractionReturnsUrlOrRaises ==
    adapter = "youtube" =>
        /\ \A i \in 1..Len(messages) : messages[i].kind # "no_stream_url"
        /\ (extract_calls = 1 /\ open_calls = 0) =>
              \/ pc = "yt_open" /\ stream_url # <<>>
              \/ /\ pc = "yt_except"
                 /\ Len(exc.text) >= Len(ExtractionPrefix)
                 /\ SubSeq(exc.text, 1, Len(ExtractionPrefix)) = ExtractionPrefix
              \/ /\ pc \in {"yt_finally", "done"}
                 /\ messages[Len(messages)].kind = "extraction_error"
        /\ open_calls = 1 => stream_url # <<>>

\* C17's case: the extraction found no stream URL in the video info, and the
\* adapter has exited after the extraction-error message.
C17_Witness ==
    /\ adapter = "youtube"
    /\ pc = "done"
    /\ \E i \in 1..Len(messages) :
          /\ messages[i].kind = "extraction_error"
          /\ messages[i].text = ExtractionPrefix \o NoStreamUrlText

\* Every load_model call has exited.
AllCallsDone == \A t \in Threads : lm_pc[t] = "done"

\* C14: with concurrent load_model calls, when call j saved torch.load while
\* call i's wrapper was installed and j is the last to restore, then with all
\* calls finished torch.load is still call i's relaxed wrapper, not the
\* library's function: a later torch.load(weights_only=True) is run with
\* weights_only=False.
C14_ConcurrentOverrideLeaks ==
    \A i \in Threads, j \in Threads :
        ( /\ AllCallsDone
          /\ i # j
          /\ original_load[j] = patched_load(original_load[i], i)
          /\ last_restore = j )
        => /\ torch_load = patched_load(original_load[i], i)
           /\ torch_load # OriginalTorchLoad
           /\ CallTorchLoad(torch_load, "True") = "False"

\* C14's case: both calls have finished, the first restored before the second,
\* and torch.load is the first call's wrapper.
C14_Witness ==
    /\ AllCallsDone
    /\ original_load[2] = patched_load(OriginalTorchLoad, 1)
    /\ last_restore = 2
    /\ torch_load = patched_load(OriginalTorchLoad, 1)

\* C15: an adapter whose source opened and is finite eventually exits; the
\* loop of an opened source is left only after a failed read or an exception;
\* so on a live source, whose reads never fail, with no exception, the adapter
\* neither exits nor releases the source.
C15_LoopEndsOnlyOnFailedReadOrException ==
    /\ (cap.was_opened /\ ~live) ~> (pc = "done")
    /\ [] ( (cap.was_opened /\ pc \in {"yt_finally", "done"})
               => (read_failed \/ HasMessage("error")) )
    /\ [] ( (live /\ cap.was_opened /\ ~exc.raised /\ ~HasMessage("error"))
               => (cap.releases = 0 /\ pc \in {"yt_check", "loop", "read", "render"}) )

\* C15's case: the webcam adapter has read and rendered MaxLiveReads frames of a live
\* source and is at its next read, the source not released.
C15_Witness ==
    /\ adapter = "webcam"
    /\ live
    /\ cap.was_opened
    /\ frame_count = MaxLiveReads
    /\ Len(shown) = MaxLiveReads
    /\ pc = "read"
    /\ cap.releases = 0

=============================================================================
